---- MODULE Spec2Model ----
(***************************************************************************)
(* The Daily Chronicle: the pagination / prefetch controller of the       *)
(* flip-book reader.                                                        *)
(*                                                                          *)
(* Two builds of the App component are modelled:                            *)
(*   variant = "max_id"  src/unnamed/part_000 (cursor pagination,           *)
(*                       unique-story mode, loadingMore guard)              *)
(*   variant = "limit"   src/index.tsx (limit escalation, local cache)      *)
(*                                                                          *)
(* React state is modelled the usual way: a state update and the render     *)
(* that follows it are one step, so an event handler always reads the       *)
(* committed state.  What an async function captured when it was called     *)
(* (its closure) is kept in the record of the request it is awaiting.       *)
(***************************************************************************)
EXTENDS Integers, Sequences, FiniteSets, TLC

VARIABLES
    variant,      \* which part runs: "max_id", "limit" or "normalizer"
    articles,     \* useState articles: the article window
    loading,      \* useState loading
    loadingMore,  \* useState loadingMore (max_id build)
    uniqueMode,   \* useState uniqueMode (max_id build)
    inflight,     \* fetchNews calls that are awaiting their HTTP response
    newest,       \* environment: the server holds the articles 1..newest
    gen,          \* history: number of mode toggles so far
    lastFailed,   \* history: the last load-more that resolved empty
    retry,        \* history: the load-more issued right after an empty one
    currentLimit, \* useState currentLimit (limit build)
    cacheData,    \* localStorage entry news_articles_cache
    cacheTs,      \* localStorage entry news_cache_timestamp
    now,          \* Date.now()
    timers,       \* setTimeout callbacks that have not run yet (limit build)
    lastResult,   \* history: caller, size and origin of the last fetchNews result
    modalArticle,    \* useState modalArticle: << >> (null) or << article >>
    relatedArticles, \* useState relatedArticles, with the article they were
                     \* computed for (history)
    relatedPending,  \* fetchRelatedArticles calls awaiting fetchNews
    rawArticles,     \* normalizer: data.articles of one response
    normalized,      \* normalizer: what fetchNews made of rawArticles
    imageFailed,     \* normalizer: pages whose <img> has fired onError
    timeZone         \* environment: offset of the local time zone in hours

vars == << variant, articles, loading, loadingMore, uniqueMode, inflight,
           newest, gen, lastFailed, retry,
           currentLimit, cacheData, cacheTs, now, timers, lastResult,
           modalArticle, relatedArticles, relatedPending,
           rawArticles, normalized, imageFailed, timeZone >>

\* the state of the max_id build, and the state only the limit build uses
maxIdVars == << loadingMore, uniqueMode, gen, lastFailed, retry >>
limitVars == << currentLimit, timers >>
storageVars == << cacheData, cacheTs >>
\* the detail view of the max_id build, and the state of the normalizer runs
detailVars == << modalArticle, relatedArticles, relatedPending >>
normalizerVars == << rawArticles, normalized, imageFailed, timeZone >>

----------------------------------------------------------------------------
(* Bounds of the model *)

\* the server holds at most this many articles
MaxArticleId == 28
\* the reader stops flipping once the window holds this many articles
MaxWindow == 30
\* number of mode toggles in one session
MaxToggles == 2
\* fetchNews calls of the limit build that can be awaiting a response
MaxInflight == 2
\* the largest number of articles the server of the limit build holds
MaxLimitArticles == 32
\* the pages on which the reader asks for the detail view
ReadMorePages == { 1, 2 }
\* the largest number of raw articles in a response given to the normalizer
MaxBatch == 2
\* the numbers of articles the server holds in the runs with a detail view
ReadMoreServerSizes == { 3, 21 }
\* the numbers of articles the server of the limit build can hold
LimitServerSizes == { 0, 3, 8, 20, MaxLimitArticles }

(* Program constants *)

\* loadNews: fetchNews(20, undefined, uniqueMode)
InitialLimit == 20
\* loadMoreArticles: fetchNews(50, maxId, uniqueMode)
MoreLimit == 50
\* handleFlip: totalPages === 20 && pageNum >= 5
FirstBatchSize == 20
FirstBatchTrigger == 5
\* handleFlip: totalPages > 20 && pageNum >= totalPages - 25
TrailingDistance == 25

\* fetchRelatedArticles: fetchNews(200, undefined, false)
RelatedLimit == 200

\* CACHE_DURATION = 10 * 60 * 1000
CACHE_DURATION == 600000
\* loadNews of the limit build: fetchNews(5), setCurrentLimit(5)
StartLimit == 5
\* backgroundLoadFullArticles: fetchNews(20), setCurrentLimit(20)
FullLimit == 20

\* the value of an argument that was not passed (maxId?: number)
Undefined == -1
\* history variables: no load-more recorded
NoFailure == [ max_id |-> -2, gen |-> -2 ]
NoRetry == [ failed |-> NoFailure, issued |-> NoFailure ]
NoResult == [ kind |-> "none", count |-> 0, from |-> "nothing" ]

\* history: where the articles of a fetchNews result came from
FromNetwork(result) == IF Len(result) > 0 THEN "network" ELSE "nothing"

\* history: the session was started by the refresh control
Refreshed == [ kind |-> "refresh", count |-> 0, from |-> "nothing" ]

\* useState<any[]>([]) of relatedArticles: no result computed yet
NoRelated == [ for |-> 0, items |-> << >> ]

\* the normalizer has not run
NotNormalized == [ done |-> FALSE, articles |-> << >> ]

\* the state of the detail view and of the normalizer when they are idle
DetailIdle ==
    /\ modalArticle = << >>
    /\ relatedArticles = NoRelated
    /\ relatedPending = << >>

NormalizerIdle ==
    /\ rawArticles = << >>
    /\ normalized = NotNormalized
    /\ imageFailed = { }
    /\ timeZone = 0

----------------------------------------------------------------------------
(* Sequences *)

RemoveAt(s, i) == SubSeq(s, 1, i - 1) \o SubSeq(s, i + 1, Len(s))

Last(s) == s[Len(s)]

----------------------------------------------------------------------------
(* The article API (external): GET /articles?limit=..[&max_id=..][&unique_story=true] *)

\* the stories the server keeps when unique_story=true is asked for
IsUniqueStory(id) == id % 4 # 0

\* the titles of the stories, as sequences of characters: a one-word title,
\* a two-word title with a capital, a title that shares no letter with
\* them, and a title that shares a letter with the second word
Titles == << << "a" >>, << "A", " ", "b" >>, << "c" >>, << "b", "c" >> >>

Title(id) == Titles[((id + 3) % 4) + 1]

\* scraped_at in hours since the epoch: two stories are scraped a day
ScrapedAt(id) == 12 * id + 6

\* a well-formed element of data.articles (source, image_url and content
\* are left out: the window logic does not read them)
RawArticle(id) == [ id |-> id, title |-> Title(id), scraped_at |-> ScrapedAt(id) ]

\* the n newest article ids not above hi, newest first
RECURSIVE NewestFrom(_, _, _)
NewestFrom(hi, n, uniqueOnly) ==
    IF hi < 1 \/ n = 0 THEN << >>
    ELSE IF uniqueOnly /\ ~IsUniqueStory(hi) THEN NewestFrom(hi - 1, n, uniqueOnly)
    ELSE << RawArticle(hi) >> \o NewestFrom(hi - 1, n - 1, uniqueOnly)

\* the articles array of a well-formed response to the request url
ServerArticles(url) ==
    LET top == IF url.max_id = Undefined \/ url.max_id > newest
               THEN newest ELSE url.max_id
    IN  NewestFrom(top, url.limit, url.unique_story)

\* what the HTTP call of fetchNews can end in
ResponseKinds == { "ok", "network_error", "http_error", "bad_json", "no_articles_field" }

Responses(url) ==
    { [kind |-> k, articles |-> IF k = "ok" THEN ServerArticles(url) ELSE << >>] :
        k \in ResponseKinds }

----------------------------------------------------------------------------
(* fetchNews (max_id build) *)

\* JavaScript truthiness of an optional number: undefined and 0 are falsy
Truthy(n) == n # Undefined /\ n # 0

\* the request fetchNews(limit, maxId, uniqueStory) sends
FetchUrl(limit, maxId, uniqueStory) ==
    [ limit        |-> limit,
      max_id       |-> IF Truthy(maxId) THEN maxId ELSE Undefined,
      unique_story |-> uniqueStory ]

\* the text 'Invalid Date' that toLocaleDateString returns for a date that
\* could not be built
InvalidDate == -2

\* new Date(scraped_at).toLocaleDateString('en-US', {year, month, day}): the
\* calendar day of the instant in the local time zone (days since the epoch)
FormatDate(scraped_at) ==
    IF scraped_at = Undefined THEN InvalidDate
    ELSE (scraped_at + timeZone) \div 24

\* one record of data.articles.map(...); unique and gen are history tags that
\* remember the request the record came from
NormalizeArticle(raw, req) ==
    [ id |-> raw.id, headline |-> raw.title, date |-> FormatDate(raw.scraped_at),
      unique |-> req.url.unique_story, gen |-> req.gen ]

\* the outcomes of the HTTP call that throw inside the try block: fetch
\* rejects, !response.ok throws, response.json() rejects
ThrowsInTry(resp) == resp.kind \in { "network_error", "http_error", "bad_json" }

\* the value the try block returns when nothing throws
TryValue(req, resp) ==
    IF resp.kind = "no_articles_field" THEN << >>
    ELSE IF Len(resp.articles) = 0 THEN << >>
    ELSE [ i \in 1..Len(resp.articles) |-> NormalizeArticle(resp.articles[i], req) ]

\* fetchNews without its catch block: what is thrown leaves the function
FetchNewsSettlesUncaught(req, resp) ==
    IF ThrowsInTry(resp) THEN [ status |-> "rejected", value |-> << >> ]
    ELSE [ status |-> "fulfilled", value |-> TryValue(req, resp) ]

\* how the promise of fetchNews settles: catch (error) { ...; return [] }
FetchNewsSettles(req, resp) ==
    IF ThrowsInTry(resp) THEN [ status |-> "fulfilled", value |-> << >> ]
    ELSE [ status |-> "fulfilled", value |-> TryValue(req, resp) ]

\* the value fetchNews resolves to for the response resp of request req
FetchNewsResult(req, resp) == FetchNewsSettles(req, resp).value

----------------------------------------------------------------------------
(* App (max_id build) *)

\* the flip book and the menu are rendered only past the two early returns
\* of App: if (loading) ...; if (articles.length === 0) ...
MainView == ~loading /\ Len(articles) > 0

\* the call fetchNews(20, undefined, mode) of loadNews
LoadNewsRequest(mode, g) ==
    [ kind     |-> "loadNews",
      url      |-> FetchUrl(InitialLimit, Undefined, mode),
      gen      |-> g,
      snapshot |-> << >> ]

\* the call fetchNews(50, maxId, uniqueMode) of loadMoreArticles; snapshot is
\* the articles value its closure captured
LoadMoreRequest ==
    [ kind     |-> "loadMore",
      url      |-> FetchUrl(MoreLimit, Last(articles).id - 1, uniqueMode),
      gen      |-> gen,
      snapshot |-> articles ]

\* loadMoreArticles: if (articles.length === 0 || loadingMore) return
LoadMoreReturnsEarly == Len(articles) = 0 \/ loadingMore

\* mutant: the trailing distance is compared strictly
ShouldLoadMoreStrict(totalPages, pageNum) ==
    \/ totalPages = FirstBatchSize /\ pageNum >= FirstBatchTrigger
    \/ totalPages > FirstBatchSize /\ pageNum > totalPages - TrailingDistance

\* handleFlip: the condition under which it calls loadMoreArticles
ShouldLoadMore(totalPages, pageNum) ==
    \/ totalPages = FirstBatchSize /\ pageNum >= FirstBatchTrigger
    \/ totalPages > FirstBatchSize /\ pageNum >= totalPages - TrailingDistance

\* handleFlip: if (loadingMore) return
FlipReturnsEarly == loadingMore

\* mutant: the handlers read a loadingMore that is never seen set
FlipIssuesLoadMoreUnguarded(e) ==
    /\ ShouldLoadMore(Len(articles), e + 1)
    /\ Len(articles) # 0

\* the flip event e (e.data = e) makes handleFlip issue a load-more request
FlipIssuesLoadMore(e) ==
    /\ ~FlipReturnsEarly
    /\ ShouldLoadMore(Len(articles), e + 1)
    /\ ~LoadMoreReturnsEarly

\* mutant: setArticles([...articles, ...moreArticles]) with the captured articles
MergeMoreFromSnapshot(prev, snapshot, moreArticles) == snapshot \o moreArticles

\* setArticles(prev => [...prev, ...moreArticles])
MergeMore(prev, snapshot, moreArticles) == prev \o moreArticles

\* mutant: the length check is missing and the batch replaces the window
WindowAfterLoadMoreUnchecked(prev, snapshot, moreArticles) ==
    IF Len(moreArticles) > 0 THEN MergeMore(prev, snapshot, moreArticles)
    ELSE moreArticles

\* loadMoreArticles: if (moreArticles.length > 0) setArticles(...)
WindowAfterLoadMore(prev, snapshot, moreArticles) ==
    IF Len(moreArticles) > 0 THEN MergeMore(prev, snapshot, moreArticles)
    ELSE prev

\* mutant: loadNews appends to the window instead of replacing it
ReplaceWindowMerging(prev, newsArticles) == prev \o newsArticles

\* setArticles(newsArticles)
ReplaceWindow(prev, newsArticles) == newsArticles

\* mutant: loadMoreArticles calls fetchNews again when the batch is empty
PendingAfterLoadMoreRetrying(pending, i, moreArticles) ==
    IF Len(moreArticles) = 0 THEN Append(RemoveAt(pending, i), pending[i])
    ELSE RemoveAt(pending, i)

\* the pending fetchNews calls after the one awaited by loadMoreArticles has
\* resolved: neither the try, the catch nor the finally block calls fetchNews
PendingAfterLoadMore(pending, i, moreArticles) == RemoveAt(pending, i)

----------------------------------------------------------------------------
(* fetchRelatedArticles and handleReadMore (max_id build) *)

\* String.prototype.toLowerCase, on the letters the titles use
LowerChar(c) ==
    IF c = "A" THEN "a" ELSE IF c = "B" THEN "b" ELSE IF c = "C" THEN "c" ELSE c

ToLowerCase(str) == [ i \in DOMAIN str |-> LowerChar(str[i]) ]

\* String.prototype.includes: the empty string is included in every string
Includes(str, sub) ==
    \E i \in 0..(Len(str) - Len(sub)) : SubSeq(str, i + 1, i + Len(sub)) = sub

\* str.split(' ')
RECURSIVE Split(_)
Split(str) ==
    IF \A i \in DOMAIN str : str[i] # " " THEN << str >>
    ELSE LET k == CHOOSE i \in DOMAIN str :
                    str[i] = " " /\ \A j \in 1..(i - 1) : str[j] # " "
         IN  << SubSeq(str, 1, k - 1) >> \o Split(SubSeq(str, k + 1, Len(str)))

\* headline.split(' ')[0].toLowerCase()
FirstWord(headline) == ToLowerCase(Split(headline)[1])

\* headline.split(' ')[1]?.toLowerCase() || ''
SecondWord(headline) ==
    IF Len(Split(headline)) >= 2 THEN ToLowerCase(Split(headline)[2])
    ELSE << >>

\* the predicate of allArticles.filter(...)
IsRelated(article, headline) ==
    \/ Includes(ToLowerCase(article.headline), FirstWord(headline))
    \/ Includes(ToLowerCase(article.headline), SecondWord(headline))

\* new Date(a.date).getTime(): local midnight of the day, in hours
DateTime(date) == 24 * date - timeZone

\* .sort((a, b) => new Date(a.date).getTime() - new Date(b.date).getTime()):
\* ascending by date, articles of equal date keep their order
RECURSIVE SortByDate(_)
SortByDate(s) ==
    IF Len(s) <= 1 THEN s
    ELSE LET rest == SortByDate(SubSeq(s, 1, Len(s) - 1))
             x    == s[Len(s)]
             k    == Cardinality({ i \in DOMAIN rest :
                                     DateTime(rest[i].date) <= DateTime(x.date) })
         IN  SubSeq(rest, 1, k) \o << x >> \o SubSeq(rest, k + 1, Len(rest))

\* the value fetchRelatedArticles passes to setRelatedArticles
Related(allArticles, headline) ==
    SortByDate(SelectSeq(allArticles, LAMBDA a : IsRelated(a, headline)))

\* mutant: the related fetch follows the mode of the window
RelatedRequestInMode(article) ==
    [ kind |-> "related", url |-> FetchUrl(RelatedLimit, Undefined, uniqueMode),
      gen |-> 0, headline |-> article.headline, for |-> article.id ]

\* the call fetchNews(200, undefined, false) of fetchRelatedArticles; headline
\* is what its closure holds, for is the article it was started for (history);
\* its articles never enter the window, so they carry no mode generation
RelatedRequest(article) ==
    [ kind |-> "related", url |-> FetchUrl(RelatedLimit, Undefined, FALSE),
      gen |-> 0, headline |-> article.headline, for |-> article.id ]

\* mutant: setLoading(false) only after a fetch that brought articles
LoadingAfterLoadNewsOnSuccess(newsArticles) == Len(newsArticles) = 0

\* loadNews: finally { setLoading(false) }
LoadingAfterLoadNews(newsArticles) == FALSE

\* mutant: the mode toggle clears the flag
LoadingMoreResetByToggle(flag) == FALSE

\* loadingMore after the mode toggle and the loadNews it starts: neither the
\* menu item nor loadNews calls setLoadingMore
LoadingMoreAfterToggle(flag) == flag

\* mutant: setLoadingMore(false) only on the path that merged a batch
LoadingMoreAfterNoFinally(result) == Len(result) = 0

\* finally { setLoadingMore(false) }
LoadingMoreAfter(result) == FALSE

----------------------------------------------------------------------------
(* Local cache (limit build): getCachedArticles, setCachedArticles *)

MissingEntry == [ state |-> "missing", value |-> << >> ]
MissingStamp == [ state |-> "missing", value |-> 0 ]

\* a news_articles_cache entry that JSON.parse throws on
CorruptEntry == [ state |-> "corrupt", value |-> << >> ]

\* a news_cache_timestamp entry that parseInt turns into NaN
NotANumberStamp == [ state |-> "nan", value |-> 0 ]

\* the value null of getCachedArticles
Null == [ present |-> FALSE, data |-> << >> ]

\* mutant: the age test is written !(age >= CACHE_DURATION), which a
\* timestamp that is not a number passes
GetCachedArticlesNaNFresh(data, stamp, t) ==
    IF /\ data.state = "ok"
       /\ stamp.state # "missing"
       /\ (stamp.state = "nan" \/ t - stamp.value < CACHE_DURATION)
    THEN [ present |-> TRUE, data |-> data.value ]
    ELSE Null

\* mutant: an entry that is exactly CACHE_DURATION old is still served
GetCachedArticlesInclusive(data, stamp, t) ==
    IF data.state = "ok" /\ stamp.state = "ok" /\ t - stamp.value <= CACHE_DURATION
    THEN [ present |-> TRUE, data |-> data.value ]
    ELSE Null

\* getCachedArticles() for the entries data and stamp read at time t
GetCachedArticles(data, stamp, t) ==
    IF data.state # "missing" /\ stamp.state # "missing"
    THEN IF stamp.state = "ok" /\ t - stamp.value < CACHE_DURATION
         THEN IF data.state = "ok"
              THEN [ present |-> TRUE, data |-> data.value ]
              ELSE Null
         ELSE Null
    ELSE Null

\* how the two setItem calls of setCachedArticles can end
WriteOutcomes == { "stored", "data_throws", "stamp_throws" }

\* the entry news_articles_cache after setCachedArticles(arts)
DataAfterWrite(data, arts, outcome) ==
    IF outcome = "data_throws" THEN data ELSE [ state |-> "ok", value |-> arts ]

\* the entry news_cache_timestamp after setCachedArticles at time t
StampAfterWrite(stamp, t, outcome) ==
    IF outcome = "stored" THEN [ state |-> "ok", value |-> t ] ELSE stamp

\* the clock is observed at the instants around the freshness boundary
ClockInstants == { 0, CACHE_DURATION - 1, CACHE_DURATION, CACHE_DURATION + 1 }

----------------------------------------------------------------------------
(* fetchNews (limit build) *)

\* cached.slice(0, limit)
Slice(s, limit) == SubSeq(s, 1, IF Len(s) < limit THEN Len(s) ELSE limit)

\* mutant: a cache entry of exactly limit articles is not enough
CacheServesStrict(cached, limit) == cached.present /\ Len(cached.data) > limit

\* fetchNews answers from the cache: cached && cached.length >= limit
CacheServes(cached, limit) == cached.present /\ Len(cached.data) >= limit

\* the articles of a response that fetchNews maps, or << >> when it throws
LimitNetworkArticles(resp) ==
    IF resp.kind # "ok" THEN << >>
    ELSE IF Len(resp.articles) = 0 THEN << >>
    ELSE [ i \in 1..Len(resp.articles) |-> [ id |-> resp.articles[i].id ] ]

\* fetchNews writes the cache: !cached || articles.length > cached.length
ShouldCache(cached, arts) == ~cached.present \/ Len(arts) > Len(cached.data)

\* mutant: without a cache entry the catch block throws the error again
LimitFetchSettlesRethrows(cached, limit, resp) ==
    IF Len(LimitNetworkArticles(resp)) > 0
    THEN [ status |-> "fulfilled", value |-> LimitNetworkArticles(resp) ]
    ELSE IF cached.present
    THEN [ status |-> "fulfilled", value |-> Slice(cached.data, limit) ]
    ELSE [ status |-> "rejected", value |-> << >> ]

\* how the promise of fetchNews(limit) settles after its HTTP call: the
\* mapped articles, or from the catch block cached.slice(0, limit) or []
LimitFetchSettles(cached, limit, resp) ==
    IF Len(LimitNetworkArticles(resp)) > 0
    THEN [ status |-> "fulfilled", value |-> LimitNetworkArticles(resp) ]
    ELSE IF cached.present
    THEN [ status |-> "fulfilled", value |-> Slice(cached.data, limit) ]
    ELSE [ status |-> "fulfilled", value |-> << >> ]

\* the value fetchNews(limit) resolves to after its HTTP call, cached being
\* what getCachedArticles returned when fetchNews was called
LimitFetchResult(cached, limit, resp) == LimitFetchSettles(cached, limit, resp).value

\* fetchNews calls setCachedArticles(articles) for the response resp
FetchWrites(cached, resp) ==
    Len(LimitNetworkArticles(resp)) > 0 /\ ShouldCache(cached, LimitNetworkArticles(resp))

\* mutant: an exception of setItem leaves setCachedArticles and is caught by
\* the catch block of fetchNews
LimitFetchReturnWriteThrows(cached, limit, resp, outcome) ==
    IF FetchWrites(cached, resp) /\ outcome # "stored"
    THEN IF cached.present THEN Slice(cached.data, limit) ELSE << >>
    ELSE LimitFetchResult(cached, limit, resp)

\* the value fetchNews(limit) resolves to when the cache write ends in
\* outcome: setCachedArticles catches what setItem throws
LimitFetchReturn(cached, limit, resp, outcome) ==
    LimitFetchResult(cached, limit, resp)

LimitUrl(limit) == [ limit |-> limit, max_id |-> Undefined, unique_story |-> FALSE ]

----------------------------------------------------------------------------
(* App (limit build) *)

\* the part of the component state that the callers of fetchNews update
View == [ articles |-> articles, currentLimit |-> currentLimit,
          loading |-> loading, timers |-> timers ]

\* mutant: the length check is missing
AfterLoadMoreUnchecked(v, newLimit, moreArticles) ==
    [ v EXCEPT !.articles = moreArticles, !.currentLimit = newLimit ]

\* loadMoreArticles after await fetchNews(newLimit)
AfterLoadMore(v, newLimit, moreArticles) ==
    IF Len(moreArticles) > 0
    THEN [ v EXCEPT !.articles = moreArticles, !.currentLimit = newLimit ]
    ELSE v

\* loadNews after await fetchNews(5): the window, the limit, the 2000 ms
\* timer of backgroundLoadFullArticles, and finally setLoading(false)
AfterLoadNews(v, newsArticles) ==
    [ v EXCEPT !.articles = newsArticles,
               !.currentLimit = StartLimit,
               !.timers = Append(@, [ kind |-> "background", full |-> << >> ]),
               !.loading = FALSE ]

\* backgroundLoadFullArticles after await fetchNews(20): the 1000 ms timer
AfterBackground(v, fullArticles) ==
    IF Len(fullArticles) > 5
    THEN [ v EXCEPT !.timers = Append(@, [ kind |-> "applyFull", full |-> fullArticles ]) ]
    ELSE v

\* the caller of fetchNews continues with the value it resolved to
AfterFetch(v, kind, limit, result) ==
    IF kind = "loadNews" THEN AfterLoadNews(v, result)
    ELSE IF kind = "background" THEN AfterBackground(v, result)
    ELSE AfterLoadMore(v, limit, result)

\* a caller calls fetchNews(limit) at time t: it is answered from the cache
\* at once, or the HTTP request is sent and the caller is suspended (last is
\* the history of the last result, kept when no result is produced)
CallFetchNews(v, pending, last, kind, limit, data, stamp, t) ==
    LET cached == GetCachedArticles(data, stamp, t) IN
    IF CacheServes(cached, limit)
    THEN [ view    |-> AfterFetch(v, kind, limit, Slice(cached.data, limit)),
           pending |-> pending,
           result  |-> [ kind |-> kind, count |-> Len(Slice(cached.data, limit)),
                         from |-> "cache" ] ]
    ELSE [ view    |-> v,
           pending |-> Append(pending, [ kind |-> kind, limit |-> limit,
                                          url |-> LimitUrl(limit), cached |-> cached ]),
           result  |-> last ]

\* handleFlip: the limit it asks loadMoreArticles for, 0 when it asks for none
FlipLimit(pageNum, limit) ==
    IF pageNum >= 4 /\ limit < 50 THEN 50
    ELSE IF pageNum >= 31 /\ limit < 100 THEN 100
    ELSE IF pageNum >= 71 /\ limit < 200 THEN 200
    ELSE IF pageNum >= 151 /\ limit < 400 THEN 400
    ELSE 0

\* the pages the reader of the limit build flips to: the first page, and the
\* first page of each range of pages that handleFlip tells apart
LimitFlipPages == { 1, 4, 31, 71, 151 }

\* loadMoreArticles: if (newLimit <= currentLimit) return
LimitLoadMoreReturnsEarly(newLimit, limit) == newLimit <= limit

\* the component right after mounting, before its effect has run
MountedView == [ articles |-> << >>, currentLimit |-> StartLimit,
                 loading |-> TRUE, timers |-> << >> ]

\* a session of the limit build starts: mount, then loadNews calls fetchNews(5)
SessionStart(last, data, stamp, t) ==
    CallFetchNews(MountedView, << >>, last, "loadNews", StartLimit, data, stamp, t)

----------------------------------------------------------------------------
(* The normalizer of fetchNews on arbitrary raw articles, and the <img>
   elements that show the result *)

\* JavaScript values of a text field: undefined (the field is missing) and null
UndefinedText == "<undefined>"
NullText == "<null>"

\* the sentinel of image_url
NoImageFound == "No image found"

\* the placeholder image (a data: URL in the source)
DEFAULT_IMG == "data:image/svg+xml;base64"

\* a well-formed raw article of the API
SampleArticle ==
    [ id |-> 7, title |-> "Title", scraped_at |-> 30, source |-> "Source",
      image_url |-> "http://image", content |-> "Content" ]

\* raw articles the API can send: well-formed ones, one for each value of
\* image_url that matters, and one for each field that can be missing
RawSamples ==
    { SampleArticle,
      [ SampleArticle EXCEPT !.id = 8, !.scraped_at = 50 ],
      [ SampleArticle EXCEPT !.image_url = NoImageFound ],
      [ SampleArticle EXCEPT !.image_url = "" ],
      [ SampleArticle EXCEPT !.image_url = UndefinedText ],
      [ SampleArticle EXCEPT !.id = Undefined ],
      [ SampleArticle EXCEPT !.title = UndefinedText ],
      [ SampleArticle EXCEPT !.content = UndefinedText ],
      [ SampleArticle EXCEPT !.scraped_at = Undefined ] }

\* the values data.articles can have
RawBatches == UNION { [ 1..n -> RawSamples ] : n \in 0..MaxBatch }

\* the time zones of the browser, in hours east of UTC
TimeZones == { -5, 0, 5 }

\* mutant: image_url is passed through whatever it is
NormalizeImageVerbatim(image_url) == image_url

\* article.image_url === 'No image found' ? null : article.image_url
NormalizeImage(image_url) ==
    IF image_url = NoImageFound THEN NullText ELSE image_url

\* mutant: the headline is read from a field of the same name
NormalizeSameNames(raw) ==
    [ id |-> raw.id, headline |-> UndefinedText, date |-> FormatDate(raw.scraped_at),
      source |-> raw.source, img |-> NormalizeImage(raw.image_url),
      content |-> raw.content ]

\* the callback of data.articles.map(...)
Normalize(raw) ==
    [ id |-> raw.id, headline |-> raw.title, date |-> FormatDate(raw.scraped_at),
      source |-> raw.source, img |-> NormalizeImage(raw.image_url),
      content |-> raw.content ]

\* what fetchNews makes of data.articles: the empty list for an empty
\* array, else data.articles.map(...)
NormalizeBatch(raws) ==
    IF Len(raws) = 0 THEN << >>
    ELSE [ i \in 1..Len(raws) |-> Normalize(raws[i]) ]

\* JavaScript falsiness of a text value: null, undefined and ''
Falsy(text) == text \in { NullText, UndefinedText, "" }

\* src of the <img> of the detail view: modalArticle.img || DEFAULT_IMG
ModalSrc(article) == IF Falsy(article.img) THEN DEFAULT_IMG ELSE article.img

\* src of the <img> of a page: article.img || DEFAULT_IMG, replaced by
\* DEFAULT_IMG once onError has fired
PageSrc(article, failed) ==
    IF failed \/ Falsy(article.img) THEN DEFAULT_IMG ELSE article.img

----------------------------------------------------------------------------
(* Initial states: App is mounted and its effect has called loadNews *)

Init ==
    /\ variant = "max_id"
    /\ newest \in 0..MaxArticleId
    /\ articles = << >>
    /\ loading = TRUE
    /\ loadingMore = FALSE
    /\ uniqueMode = FALSE
    /\ inflight = << LoadNewsRequest(FALSE, 0) >>
    /\ gen = 0
    /\ lastFailed = NoFailure
    /\ retry = NoRetry
    /\ currentLimit = 0
    /\ cacheData = MissingEntry
    /\ cacheTs = MissingStamp
    /\ now = 0
    /\ timers = << >>
    /\ lastResult = NoResult
    /\ DetailIdle
    /\ NormalizerIdle

InitLimit ==
    /\ variant = "limit"
    /\ newest \in LimitServerSizes
    /\ cacheData = MissingEntry
    /\ cacheTs = MissingStamp
    /\ now = 0
    /\ LET s == SessionStart(NoResult, MissingEntry, MissingStamp, 0) IN
         /\ articles = s.view.articles
         /\ loading = s.view.loading
         /\ currentLimit = s.view.currentLimit
         /\ timers = s.view.timers
         /\ inflight = s.pending
         /\ lastResult = s.result
    /\ loadingMore = FALSE
    /\ uniqueMode = FALSE
    /\ gen = 0
    /\ lastFailed = NoFailure
    /\ retry = NoRetry
    /\ DetailIdle
    /\ NormalizerIdle

InitBoth == Init \/ InitLimit

----------------------------------------------------------------------------
(* Actions of the max_id build *)

\* onFlip of the flip book: handleFlip with e.data = e
HandleFlip ==
    /\ variant = "max_id"
    /\ MainView
    /\ Len(articles) < MaxWindow
    /\ \E e \in 0..(Len(articles) - 1) :
         IF FlipIssuesLoadMore(e)
         THEN /\ loadingMore' = TRUE
              /\ inflight' = Append(inflight, LoadMoreRequest)
              /\ retry' = IF lastFailed = NoFailure THEN NoRetry
                          ELSE [ failed |-> lastFailed,
                                 issued |-> [ max_id |-> LoadMoreRequest.url.max_id,
                                              gen    |-> gen ] ]
              /\ lastFailed' = NoFailure
         ELSE UNCHANGED << loadingMore, inflight, retry, lastFailed >>
    /\ UNCHANGED << variant, detailVars, normalizerVars, articles, loading, uniqueMode, newest, gen,
                    limitVars, storageVars, now, lastResult >>

\* the menu item that toggles the mode, and the effect on [uniqueMode] that
\* calls loadNews under the new mode
ToggleUniqueMode ==
    /\ variant = "max_id"
    /\ MainView
    /\ gen < MaxToggles
    /\ uniqueMode' = ~uniqueMode
    /\ gen' = gen + 1
    /\ loading' = TRUE
    /\ inflight' = Append(inflight, LoadNewsRequest(~uniqueMode, gen + 1))
    /\ loadingMore' = LoadingMoreAfterToggle(loadingMore)
    /\ UNCHANGED << variant, detailVars, normalizerVars, articles, newest, lastFailed, retry,
                    limitVars, storageVars, now, lastResult >>

\* the fetchNews call awaited by loadNews resolves
ResolveLoadNews ==
    /\ variant = "max_id"
    /\ \E i \in DOMAIN inflight :
         /\ inflight[i].kind = "loadNews"
         /\ \E resp \in Responses(inflight[i].url) :
              LET newsArticles == FetchNewsResult(inflight[i], resp) IN
              /\ articles' = ReplaceWindow(articles, newsArticles)
              /\ loading' = LoadingAfterLoadNews(newsArticles)
              /\ lastResult' = [ kind |-> "loadNews", count |-> Len(newsArticles),
                                from |-> FromNetwork(newsArticles) ]
              /\ inflight' = RemoveAt(inflight, i)
    /\ UNCHANGED << variant, detailVars, normalizerVars, loadingMore, uniqueMode, newest, gen, lastFailed, retry,
                    limitVars, storageVars, now >>

\* the fetchNews call awaited by loadMoreArticles resolves
ResolveLoadMore ==
    /\ variant = "max_id"
    /\ \E i \in DOMAIN inflight :
         /\ inflight[i].kind = "loadMore"
         /\ \E resp \in Responses(inflight[i].url) :
              LET moreArticles == FetchNewsResult(inflight[i], resp) IN
              /\ articles' = WindowAfterLoadMore(articles, inflight[i].snapshot,
                                                 moreArticles)
              /\ loadingMore' = LoadingMoreAfter(moreArticles)
              /\ lastFailed' = IF Len(moreArticles) > 0 THEN NoFailure
                               ELSE [ max_id |-> inflight[i].url.max_id,
                                      gen    |-> inflight[i].gen ]
              /\ retry' = NoRetry
              /\ lastResult' = [ kind |-> "loadMore", count |-> Len(moreArticles),
                                from |-> FromNetwork(moreArticles) ]
              /\ inflight' = PendingAfterLoadMore(inflight, i, moreArticles)
    /\ UNCHANGED << variant, detailVars, normalizerVars, loading, uniqueMode, newest, gen,
                    limitVars, storageVars, now >>

\* the menu item Refresh: both cache entries are removed and the page is
\* reloaded, which starts a new session
Refresh ==
    /\ variant = "max_id"
    /\ MainView
    /\ cacheData' = MissingEntry
    /\ cacheTs' = MissingStamp
    /\ articles' = << >>
    /\ loading' = TRUE
    /\ loadingMore' = FALSE
    /\ uniqueMode' = FALSE
    /\ inflight' = << LoadNewsRequest(FALSE, 0) >>
    /\ gen' = 0
    /\ lastFailed' = NoFailure
    /\ retry' = NoRetry
    /\ lastResult' = Refreshed
    /\ modalArticle' = << >>
    /\ relatedArticles' = NoRelated
    /\ relatedPending' = << >>
    /\ UNCHANGED << variant, normalizerVars, newest, limitVars, now >>

\* the reader clicks 'Read all' on a page: handleReadMore(article). The
\* indicator is rendered for articles whose content is longer than 800
\* characters; the content is not modelled, any article may be that long.
\* The open modal covers the pages, so it is closed when this click happens.
ReadMore ==
    /\ variant = "max_id"
    /\ MainView
    /\ modalArticle = << >>
    /\ Len(inflight) + Len(relatedPending) < MaxInflight
    /\ \E e \in ReadMorePages :
         /\ e <= Len(articles)
         /\ modalArticle' = << articles[e] >>
         /\ relatedPending' = Append(relatedPending, RelatedRequest(articles[e]))
    /\ UNCHANGED << variant, articles, loading, inflight, newest, maxIdVars, limitVars,
                    storageVars, now, lastResult, relatedArticles, normalizerVars >>

\* the fetchNews call awaited by fetchRelatedArticles resolves
ResolveRelated ==
    /\ variant = "max_id"
    /\ \E i \in DOMAIN relatedPending :
       \E resp \in Responses(relatedPending[i].url) :
         LET allArticles == FetchNewsResult(relatedPending[i], resp) IN
         /\ relatedArticles' = [ for   |-> relatedPending[i].for,
                                 items |-> Related(allArticles, relatedPending[i].headline) ]
         /\ relatedPending' = RemoveAt(relatedPending, i)
    /\ UNCHANGED << variant, articles, loading, inflight, newest, maxIdVars, limitVars,
                    storageVars, now, lastResult, modalArticle, normalizerVars >>

\* the overlay, the close button or the Close button: setModalArticle(null)
CloseModal ==
    /\ variant = "max_id"
    /\ modalArticle # << >>
    /\ modalArticle' = << >>
    /\ UNCHANGED << variant, articles, loading, inflight, newest, maxIdVars, limitVars,
                    storageVars, now, lastResult, relatedArticles, relatedPending,
                    normalizerVars >>

Next ==
    \/ HandleFlip
    \/ ToggleUniqueMode
    \/ ResolveLoadNews
    \/ ResolveLoadMore
    \/ Refresh

Spec == Init /\ [][Next]_vars

\* every issued fetch eventually resolves or rejects
FairSpec == Spec /\ WF_vars(ResolveLoadNews) /\ WF_vars(ResolveLoadMore)

\* the max_id build with its detail view
InitReadMore == Init /\ newest \in ReadMoreServerSizes

NextReadMore ==
    \/ Next
    \/ ReadMore
    \/ ResolveRelated
    \/ CloseModal

SpecReadMore == InitReadMore /\ [][NextReadMore]_vars

----------------------------------------------------------------------------
(* Actions of the limit build *)

LimitMainView == ~loading /\ Len(articles) > 0

\* the component state and the pending calls after a step of the limit build
SetView(r) ==
    /\ articles' = r.view.articles
    /\ currentLimit' = r.view.currentLimit
    /\ loading' = r.view.loading
    /\ timers' = r.view.timers
    /\ inflight' = r.pending
    /\ lastResult' = r.result

\* onFlip of the flip book: handleFlip with e.data = e
LimitHandleFlip ==
    /\ variant = "limit"
    /\ LimitMainView
    /\ Len(inflight) < MaxInflight
    /\ \E e \in 0..(Len(articles) - 1) :
         /\ e + 1 \in LimitFlipPages
         /\ LET newLimit == FlipLimit(e + 1, currentLimit) IN
            IF newLimit = 0 \/ LimitLoadMoreReturnsEarly(newLimit, currentLimit)
            THEN UNCHANGED << articles, currentLimit, loading, timers, inflight,
                              lastResult >>
            ELSE SetView(CallFetchNews(View, inflight, lastResult, "loadMore", newLimit,
                                       cacheData, cacheTs, now))
    /\ UNCHANGED << variant, detailVars, normalizerVars, newest, maxIdVars, storageVars, now >>

\* a setTimeout callback runs: backgroundLoadFullArticles, or the delayed
\* setArticles(fullArticles); setCurrentLimit(20)
LimitTimerFires ==
    /\ variant = "limit"
    /\ \E i \in DOMAIN timers :
         LET rest == [ View EXCEPT !.timers = RemoveAt(timers, i) ] IN
         IF timers[i].kind = "background"
         THEN SetView(CallFetchNews(rest, inflight, lastResult, "background", FullLimit,
                                    cacheData, cacheTs, now))
         ELSE SetView([ view    |-> [ rest EXCEPT !.articles = timers[i].full,
                                                  !.currentLimit = FullLimit ],
                        pending |-> inflight,
                        result  |-> lastResult ])
    /\ UNCHANGED << variant, detailVars, normalizerVars, newest, maxIdVars, storageVars, now >>

\* the HTTP call of a suspended fetchNews ends; fetchNews writes the cache
\* and its caller continues
LimitResolveWith(i, resp, outcome) ==
    LET req    == inflight[i]
        arts   == LimitNetworkArticles(resp)
        result == LimitFetchReturn(req.cached, req.limit, resp, outcome)
        writes == FetchWrites(req.cached, resp)
    IN  /\ writes \/ outcome = "stored"
        /\ cacheData' = IF writes THEN DataAfterWrite(cacheData, arts, outcome)
                        ELSE cacheData
        /\ cacheTs' = IF writes THEN StampAfterWrite(cacheTs, now, outcome)
                      ELSE cacheTs
        /\ SetView([ view    |-> AfterFetch(View, req.kind, req.limit, result),
                     pending |-> RemoveAt(inflight, i),
                     result  |-> [ kind |-> req.kind, count |-> Len(result),
                                   from |-> IF Len(arts) > 0 THEN "network"
                                            ELSE IF Len(result) > 0 THEN "fallback"
                                            ELSE "nothing" ] ])
        /\ UNCHANGED << variant, detailVars, normalizerVars, newest, maxIdVars, now >>

LimitResolveFetch ==
    /\ variant = "limit"
    /\ \E i \in DOMAIN inflight :
       \E resp \in Responses(inflight[i].url) :
       \E outcome \in WriteOutcomes :
         LimitResolveWith(i, resp, outcome)

\* localStorage is changed from outside the application (another script of
\* the origin, the developer tools): an entry no longer decodes
LimitStorageCorrupted ==
    /\ variant = "limit"
    /\ \/ /\ cacheData.state = "ok"
          /\ cacheData' = CorruptEntry
          /\ cacheTs' = cacheTs
       \/ /\ cacheTs.state = "ok"
          /\ cacheTs' = NotANumberStamp
          /\ cacheData' = cacheData
    /\ UNCHANGED << variant, detailVars, normalizerVars, articles, loading, inflight, newest, maxIdVars,
                    limitVars, now, lastResult >>

\* time passes
LimitClockAdvances ==
    /\ variant = "limit"
    /\ \E t \in ClockInstants : t > now /\ now' = t
    /\ UNCHANGED << variant, detailVars, normalizerVars, articles, loading, inflight, newest, maxIdVars,
                    limitVars, storageVars, lastResult >>

\* the page is loaded again: the component state, the pending calls and the
\* timers are gone, localStorage is kept
LimitRestart(last, data, stamp) ==
    /\ cacheData' = data
    /\ cacheTs' = stamp
    /\ SetView(SessionStart(last, data, stamp, now))
    /\ UNCHANGED << variant, detailVars, normalizerVars, newest, maxIdVars, now >>

\* mutant: the refresh button reloads the page without removing the entries
LimitRefreshKeepsCache ==
    /\ variant = "limit"
    /\ LimitMainView
    /\ LimitRestart(Refreshed, cacheData, cacheTs)

\* the refresh button: both cache entries are removed, then the page reloads
LimitRefresh ==
    /\ variant = "limit"
    /\ LimitMainView
    /\ LimitRestart(Refreshed, MissingEntry, MissingStamp)

\* the reader reloads the page
LimitReload ==
    /\ variant = "limit"
    /\ LimitRestart(NoResult, cacheData, cacheTs)

NextLimit ==
    \/ LimitHandleFlip
    \/ LimitTimerFires
    \/ LimitResolveFetch
    \/ LimitClockAdvances
    \/ LimitStorageCorrupted
    \/ LimitRefresh
    \/ LimitReload

SpecLimit == InitLimit /\ [][NextLimit]_vars

NextBoth == Next \/ NextLimit

SpecBoth == InitBoth /\ [][NextBoth]_vars

----------------------------------------------------------------------------
(* The normalizer on its own: a response arrives, fetchNews normalizes it,
   the pages render it *)

InitNormalize ==
    /\ variant = "normalizer"
    /\ rawArticles \in RawBatches
    /\ timeZone \in TimeZones
    /\ normalized = NotNormalized
    /\ imageFailed = { }
    /\ newest = 0
    /\ articles = << >>
    /\ loading = TRUE
    /\ loadingMore = FALSE
    /\ uniqueMode = FALSE
    /\ inflight = << >>
    /\ gen = 0
    /\ lastFailed = NoFailure
    /\ retry = NoRetry
    /\ currentLimit = 0
    /\ cacheData = MissingEntry
    /\ cacheTs = MissingStamp
    /\ now = 0
    /\ timers = << >>
    /\ lastResult = NoResult
    /\ DetailIdle

\* fetchNews maps the response
NormalizeResponse ==
    /\ variant = "normalizer"
    /\ ~normalized.done
    /\ normalized' = [ done |-> TRUE, articles |-> NormalizeBatch(rawArticles) ]
    /\ UNCHANGED << variant, articles, loading, inflight, newest, maxIdVars, limitVars,
                    storageVars, now, lastResult, detailVars,
                    rawArticles, imageFailed, timeZone >>

\* the image of a page fails to load: onError of its <img>
ImageError ==
    /\ variant = "normalizer"
    /\ \E i \in DOMAIN normalized.articles :
         /\ i \notin imageFailed
         /\ ~Falsy(normalized.articles[i].img)
         /\ imageFailed' = imageFailed \cup { i }
    /\ UNCHANGED << variant, articles, loading, inflight, newest, maxIdVars, limitVars,
                    storageVars, now, lastResult, detailVars,
                    rawArticles, normalized, timeZone >>

NextNormalize ==
    \/ NormalizeResponse
    \/ ImageError

SpecNormalize == InitNormalize /\ [][NextNormalize]_vars

----------------------------------------------------------------------------
(* Properties of the max_id build *)

LoadMoreInFlight == { i \in DOMAIN inflight : inflight[i].kind = "loadMore" }

\* the response of the server when the HTTP call succeeds
OkResponse(url) == [ kind |-> "ok", articles |-> ServerArticles(url) ]

StrictlyDescending(s) == \A i \in 1..(Len(s) - 1) : s[i].id > s[i + 1].id

\* C1: at most one load-more request is in flight in every reachable state:
\* flip events delivered while one is unresolved issue no further request.
C1_AtMostOneLoadMore == Cardinality(LoadMoreInFlight) <= 1

\* C1 witness: the flip book is shown, so flips are delivered, while a
\* load-more is unresolved.
C1_Witness ==
    /\ MainView
    /\ Len(articles) < MaxWindow
    /\ Cardinality(LoadMoreInFlight) = 1
    /\ loadingMore

\* C2: whenever no request is in flight, every article of the window was
\* returned by a request issued under the current uniqueMode (a load-more
\* that outlives a mode toggle is discarded, never merged).
C2_StaleModeDiscarded ==
    Len(inflight) = 0 =>
        \A k \in DOMAIN articles : articles[k].unique = uniqueMode

\* C3: every load-more request carries limit=50, max_id = (id of the last
\* article of the window) - 1, never omitted, and unique_story=true exactly
\* when uniqueMode is on.
C3_CursorIsLastIdMinusOne ==
    [][ (Len(inflight') = Len(inflight) + 1 /\ Last(inflight').kind = "loadMore")
        => Last(inflight').url = [ limit        |-> 50,
                                    max_id       |-> Last(articles).id - 1,
                                    unique_story |-> uniqueMode ] ]_vars

\* C4: when the fetch issued by a mode toggle resolves with no load-more in
\* flight, that fetch was limit=20, no max_id, flag of the new mode, the
\* window becomes exactly the batch it returned, and no article held before
\* the toggle is left in it.
C4_ToggleResets ==
    [][ \A i \in DOMAIN inflight :
          ( /\ inflight[i].kind = "loadNews"
            /\ inflight[i].gen >= 1
            /\ inflight' = RemoveAt(inflight, i)
            /\ LoadMoreInFlight = {} )
          => /\ inflight[i].url = [ limit        |-> 20,
                                    max_id       |-> Undefined,
                                    unique_story |-> uniqueMode ]
             /\ \E resp \in Responses(inflight[i].url) :
                   articles' = FetchNewsResult(inflight[i], resp)
             /\ \A k \in DOMAIN articles' : articles'[k].gen = gen ]_vars

\* C4 witness: a toggle to unique mode was made on a loaded window with no
\* load-more in flight and its fetch has resolved with articles.
C4_Witness ==
    /\ gen = 1
    /\ uniqueMode
    /\ Len(inflight) = 0
    /\ ~loading
    /\ Len(articles) = 20
    /\ \A k \in DOMAIN articles : articles[k].gen = 1

\* C6 (as claimed): the load-more issued right after an empty or failed one
\* carries the same max_id as that one.
C6_RetrySameCursor ==
    retry # NoRetry => retry.issued.max_id = retry.failed.max_id

\* C6 (amended): provided no mode toggle reset the window since the failed
\* request was issued, a flip can issue the load-more again once it has
\* resolved, and the request issued then carries the same max_id.
C6_RetrySameCursorSameWindow ==
    /\ (lastFailed # NoFailure /\ lastFailed.gen = gen) =>
          /\ MainView
          /\ \E e \in 0..(Len(articles) - 1) : FlipIssuesLoadMore(e)
          /\ LoadMoreRequest.url.max_id = lastFailed.max_id
    /\ (retry # NoRetry /\ retry.failed.gen = retry.issued.gen) =>
          retry.issued.max_id = retry.failed.max_id

\* C6 witness: a load-more failed and a flip has issued it again, on the
\* same window.
C6_Witness ==
    /\ retry # NoRetry
    /\ retry.failed.gen = retry.issued.gen
    /\ retry.issued.max_id = retry.failed.max_id
    /\ retry.issued.max_id # Undefined
    /\ Cardinality(LoadMoreInFlight) = 1

\* C7: loadingMore is set as long as a load-more is awaited, and whenever it
\* is set it is cleared again once the fetch resolves, whatever the outcome.
C7_GuardReleased ==
    /\ [](LoadMoreInFlight # {} => loadingMore)
    /\ (loadingMore ~> ~loadingMore)

\* C7 witness: a load-more has failed and the guard is clear again.
C7_Witness ==
    /\ lastFailed # NoFailure
    /\ ~loadingMore
    /\ LoadMoreInFlight = {}

\* C8: when a load-more resolves with a non-empty batch B the new window is
\* the window held at that moment followed by B (and is unchanged when the
\* batch is empty): the old window is a prefix of the new one.
C8_MergeUsesCurrentWindow ==
    [][ \A i \in DOMAIN inflight :
          ( /\ inflight[i].kind = "loadMore"
            /\ inflight' = RemoveAt(inflight, i) )
          => LET B == FetchNewsResult(inflight[i], OkResponse(inflight[i].url))
             IN  \/ articles' = articles
                 \/ Len(B) > 0 /\ articles' = articles \o B ]_vars

\* C8 witness: the window was replaced while a load-more was suspended, and
\* its batch was then appended to the new window.
C8_Witness ==
    /\ LoadMoreInFlight = {}
    /\ \E k \in 1..(Len(articles) - 1) :
          articles[k].gen = gen /\ articles[k + 1].gen < gen

\* C9: the window is strictly descending by id in every reachable state.
C9_WindowStrictlyDescending == StrictlyDescending(articles)

\* C10 (as claimed): for every non-empty window, a flip landing on the last
\* loaded page with no load in flight issues a load-more.
C10_LastPageAlwaysLoads ==
    (MainView /\ ~loadingMore /\ LoadMoreInFlight = {}) =>
        FlipIssuesLoadMore(Len(articles) - 1)

\* C10 (amended): with no load in flight, a flip issues a load-more exactly
\* when the window holds 20 articles and the flip lands on page 5 or later,
\* or holds more than 20 and the flip lands within 25 pages of the end; so a
\* flip landing on the last page issues one whenever the window holds at
\* least 20 articles, and none is issued for a window of fewer than 20.
C10_TrailingPagesLoad ==
    (MainView /\ ~loadingMore /\ LoadMoreInFlight = {}) =>
        /\ \A e \in 0..(Len(articles) - 1) :
              FlipIssuesLoadMore(e) <=>
                 \/ Len(articles) = 20 /\ e + 1 >= 5
                 \/ Len(articles) > 20 /\ e + 1 >= Len(articles) - 25
        /\ Len(articles) >= 20 => FlipIssuesLoadMore(Len(articles) - 1)

\* C10 witness: a flip on a window of more than 25 articles has issued a
\* load-more.
C10_Witness ==
    /\ Cardinality(LoadMoreInFlight) = 1
    /\ \E i \in LoadMoreInFlight :
          inflight[i].snapshot = articles /\ Len(articles) > 26

----------------------------------------------------------------------------
(* Properties of both builds *)

----------------------------------------------------------------------------
(* Properties of fetchNews (max_id build) *)

\* C11: fetchNews of the max_id build never rejects: for every request the
\* application has issued and every outcome of its HTTP call, the promise is
\* fulfilled; it is fulfilled with the empty list on a network error, a
\* non-2xx status, a malformed body and a missing or empty articles array,
\* and with one normalized record per raw article, in the same order, on a
\* well-formed non-empty response.
C11_FetchNewsNeverRejects ==
    variant = "max_id" =>
      \A i \in DOMAIN inflight :
      \A resp \in Responses(inflight[i].url) :
        LET s == FetchNewsSettles(inflight[i], resp) IN
        /\ s.status = "fulfilled"
        /\ (resp.kind # "ok" \/ Len(resp.articles) = 0) => s.value = << >>
        /\ (resp.kind = "ok" /\ Len(resp.articles) > 0) =>
              /\ Len(s.value) = Len(resp.articles)
              /\ \A k \in 1..Len(resp.articles) :
                    s.value[k] = NormalizeArticle(resp.articles[k], inflight[i])

\* C11 witness: the initial HTTP call failed although the server holds
\* articles; fetchNews resolved to the empty list and loadNews went on.
C11_Witness ==
    /\ variant = "max_id"
    /\ newest > 0
    /\ lastResult = [ kind |-> "loadNews", count |-> 0, from |-> "nothing" ]
    /\ ~loading
    /\ articles = << >>

----------------------------------------------------------------------------
(* Properties of the limit build *)

\* C12: with entries that decode, the cache read returns the stored article
\* array exactly when both the data entry and the timestamp entry exist and
\* the age now - timestamp is strictly less than 600000 ms; at an age of
\* exactly 600000 ms or more, or when either entry is missing, it returns
\* null.
C12_CacheReadFreshness ==
    ( /\ variant = "limit"
      /\ cacheData.state \in { "ok", "missing" }
      /\ cacheTs.state \in { "ok", "missing" } )
    => LET c == GetCachedArticles(cacheData, cacheTs, now) IN
       IF /\ cacheData.state = "ok"
          /\ cacheTs.state = "ok"
          /\ now - cacheTs.value < 600000
       THEN c = [ present |-> TRUE, data |-> cacheData.value ]
       ELSE c = Null

\* C12 witness: the page was reloaded when the entry was exactly ten minutes
\* old; the cache read returned null and loadNews went to the network.
C12_Witness ==
    /\ variant = "limit"
    /\ cacheData.state = "ok"
    /\ Len(cacheData.value) >= StartLimit
    /\ cacheTs.state = "ok"
    /\ now - cacheTs.value = CACHE_DURATION
    /\ lastResult = NoResult
    /\ Len(inflight) = 1
    /\ inflight[1].kind = "loadNews"
    /\ inflight[1].cached = Null

\* C13: while the cache entry is fresh, a write of fetchNews never replaces
\* it by an article array with fewer articles, under every interleaving of
\* the concurrent fetchNews calls (initial, background 20, flip-triggered).
C13_CachedCountNeverDecreases ==
    [][ ( /\ variant = "limit"
          /\ GetCachedArticles(cacheData, cacheTs, now).present
          /\ cacheData' # cacheData
          /\ cacheData'.state = "ok" )
        => Len(cacheData'.value) >= Len(cacheData.value) ]_vars

\* C14: within one session of the limit build the number of articles in the
\* window and currentLimit never decrease; in particular no timer callback
\* of the delayed background load of 20 articles decreases them, however it
\* interleaves with the flip-triggered loadMoreArticles calls and their
\* completions.
C14_WindowAndLimitNeverDecrease ==
    [][ LimitTimerFires
        => /\ Len(articles') >= Len(articles)
           /\ currentLimit' >= currentLimit ]_vars

\* C15: in the limit build a load-more whose network request fails (network
\* error, non-2xx status, malformed body, no articles) does not advance the
\* pagination position: currentLimit keeps its value.
C15_FailedLoadMoreKeepsLimit ==
    [][ \A i \in DOMAIN inflight :
        \A resp \in Responses(inflight[i].url) :
          ( /\ variant = "limit"
            /\ inflight[i].kind = "loadMore"
            /\ resp.kind # "ok"
            /\ LimitResolveWith(i, resp, "stored") )
          => currentLimit' = currentLimit ]_vars

\* C16: in the limit build at most one flip-triggered load-more network
\* request is outstanding at any time.
C16_AtMostOneLimitLoadMore ==
    variant = "limit" => Cardinality(LoadMoreInFlight) <= 1

----------------------------------------------------------------------------
(* Properties of the max_id pagination controller *)

\* C17: in the max_id build a load-more request is issued only as the direct
\* effect of a flip event: the completion of a fetch (success, empty or
\* failure) takes its request out of flight and issues no other, and every
\* step that adds a load-more request is a flip event that adds exactly
\* one, so the requests never outnumber the flip events.
C17_LoadMoreOnlyByFlip ==
    [][ LET before == Cardinality(LoadMoreInFlight)
            after  == Cardinality(LoadMoreInFlight')
        IN  /\ ResolveLoadMore => after = before - 1
            /\ ResolveLoadNews => after = before
            /\ after > before => (HandleFlip /\ after = before + 1) ]_vars

\* C17 witness: a load-more has resolved with no articles (failure or empty
\* response) and no request is in flight: nothing happens until the reader
\* flips again.
C17_Witness ==
    /\ variant = "max_id"
    /\ MainView
    /\ lastResult = [ kind |-> "loadMore", count |-> 0, from |-> "nothing" ]
    /\ inflight = << >>

----------------------------------------------------------------------------
(* Properties of the refresh control (both builds) *)

\* C18: the explicit refresh removes both cache entries before the reload:
\* right after it the cache read reports absent, the window of the new
\* session is empty, and its initial fetch is a pending network request
\* rather than an answer from the cache.
C18_RefreshClearsCache ==
    [][ (Refresh \/ LimitRefresh)
        => /\ cacheData' = MissingEntry
           /\ cacheTs' = MissingStamp
           /\ GetCachedArticles(cacheData', cacheTs', now') = Null
           /\ articles' = << >>
           /\ loading'
           /\ Len(inflight') = 1
           /\ inflight'[1].kind = "loadNews" ]_vars

\* C18 witness: the limit build was refreshed; both entries are gone and
\* the new session waits for the network.
C18_Witness ==
    /\ variant = "limit"
    /\ lastResult = Refreshed
    /\ cacheData = MissingEntry
    /\ cacheTs = MissingStamp
    /\ articles = << >>
    /\ loading
    /\ Len(inflight) = 1
    /\ inflight[1].kind = "loadNews"
    /\ inflight[1].cached = Null

----------------------------------------------------------------------------
(* Properties of the cache (limit build) *)

\* the limits fetchNews is called with
FetchLimits == { StartLimit, FullLimit, 50, 100, 200, 400 }

\* C19: when the stored data cannot be decoded or the stored timestamp is
\* not a number, the cache read reports absent (null), and a call of
\* fetchNews with any limit goes to the network and resolves, for every
\* response, exactly as it does when no cache entry exists.
C19_CorruptCacheIsAbsent ==
    ( /\ variant = "limit"
      /\ (cacheData.state = "corrupt" \/ cacheTs.state = "nan") )
    => /\ GetCachedArticles(cacheData, cacheTs, now) = Null
       /\ \A limit \in FetchLimits :
            LET corrupt == CallFetchNews(View, inflight, lastResult, "loadMore", limit,
                                         cacheData, cacheTs, now)
                absent  == CallFetchNews(View, inflight, lastResult, "loadMore", limit,
                                         MissingEntry, MissingStamp, now)
            IN  /\ corrupt = absent
                /\ Len(corrupt.pending) = Len(inflight) + 1
                /\ \A resp \in Responses(LimitUrl(limit)) :
                     LimitFetchReturn(Last(corrupt.pending).cached, limit, resp, "stored")
                       = LimitFetchReturn(Null, limit, resp, "stored")

\* C19 witness: the page was reloaded while the data entry was corrupt and
\* its timestamp fresh; the cache read returned null and the initial fetch
\* went to the network.
C19_Witness ==
    /\ variant = "limit"
    /\ cacheData = CorruptEntry
    /\ cacheTs.state = "ok"
    /\ now - cacheTs.value < CACHE_DURATION
    /\ lastResult = NoResult
    /\ Len(inflight) = 1
    /\ inflight[1].kind = "loadNews"
    /\ inflight[1].cached = Null

\* C20: cache writing is best-effort: for every pending fetchNews call and
\* every response it writes to the cache, when storing the data or the
\* timestamp fails, setCachedArticles does not throw, fetchNews resolves to
\* the articles just fetched from the network, and the caller updates the
\* window exactly as after a successful write.
C20_CacheWriteBestEffort ==
    variant = "limit" =>
      \A i \in DOMAIN inflight :
      \A resp \in Responses(inflight[i].url) :
      \A outcome \in WriteOutcomes \ { "stored" } :
        LET req      == inflight[i]
            returned == LimitFetchReturn(req.cached, req.limit, resp, outcome)
            stored   == LimitFetchReturn(req.cached, req.limit, resp, "stored")
        IN  FetchWrites(req.cached, resp)
            => /\ returned = LimitNetworkArticles(resp)
               /\ AfterFetch(View, req.kind, req.limit, returned)
                    = AfterFetch(View, req.kind, req.limit, stored)

\* C20 witness: the first cache write of the session failed on the data
\* entry, and the window shows the articles of the initial fetch.
C20_Witness ==
    /\ variant = "limit"
    /\ cacheData = MissingEntry
    /\ ~loading
    /\ Len(articles) > 0
    /\ lastResult = [ kind |-> "loadNews", count |-> Len(articles), from |-> "network" ]

----------------------------------------------------------------------------
(* Properties of the detail view (max_id build) *)

\* a step in which a related-articles fetch completes: one of the pending
\* fetches is gone and the application was not reloaded
RelatedFetchCompletes ==
    /\ Len(relatedPending') < Len(relatedPending)
    /\ ~Refresh

\* C21: the related-articles fetch started by read-more is independent of
\* the main window: read-more issues one request with limit 200, without
\* max_id and without unique_story, whatever uniqueMode is, and neither
\* issuing it nor its completion (success, empty or failure) changes the
\* article window, loading, loadingMore, uniqueMode or the requests of the
\* window.
C21_RelatedFetchIsIndependent ==
    [][ /\ ReadMore =>
             /\ Len(relatedPending') = Len(relatedPending) + 1
             /\ Last(relatedPending').url
                  = [ limit |-> 200, max_id |-> Undefined, unique_story |-> FALSE ]
        /\ (ReadMore \/ RelatedFetchCompletes) =>
             UNCHANGED << articles, loading, loadingMore, uniqueMode, inflight >> ]_vars

\* C21 witness: read-more was invoked on an article of the unique-stories
\* window, and the related list that came back holds a story that the
\* unique-stories mode leaves out.
C21_Witness ==
    /\ variant = "max_id"
    /\ uniqueMode
    /\ modalArticle # << >>
    /\ modalArticle[1].unique
    /\ relatedArticles.for = modalArticle[1].id
    /\ \E k \in DOMAIN relatedArticles.items :
         ~IsUniqueStory(relatedArticles.items[k].id)

\* an article whose headline contains, case-insensitively, the first word of
\* the given headline, or its second word when it has one
MatchesAWord(article, headline) ==
    LET words == Split(headline) IN
    \/ Includes(ToLowerCase(article.headline), ToLowerCase(words[1]))
    \/ /\ Len(words) >= 2
       /\ Includes(ToLowerCase(article.headline), ToLowerCase(words[2]))

\* C22: every article of the related-articles result contains,
\* case-insensitively, the first word of the headline the result was
\* computed for, or its second word when the headline has one; an article
\* matching neither word is never included, also when the headline is a
\* single word.
C22_RelatedMatchesAWord ==
    relatedArticles.for # 0 =>
      \A k \in DOMAIN relatedArticles.items :
        MatchesAWord(relatedArticles.items[k], Title(relatedArticles.for))

----------------------------------------------------------------------------
(* Properties of the normalizer *)

\* a raw article that lacks a required field
LacksRequiredField(raw) ==
    raw.id = Undefined \/ raw.title = UndefinedText \/ raw.content = UndefinedText

\* C23: normalization fails closed at batch level: when a raw article of a
\* response lacks a required field (id, title or content), fetchNews makes
\* the empty list of the whole response.
C23_NormalizationFailsClosed ==
    ( /\ normalized.done
      /\ \E i \in DOMAIN rawArticles : LacksRequiredField(rawArticles[i]) )
    => normalized.articles = << >>

\* the sentinel normalizes to null, every other image_url is passed through
ImageIsNormalized(raw, article) ==
    IF raw.image_url = NoImageFound THEN article.img = NullText
    ELSE article.img = raw.image_url

\* C24 as stated: the sentinel "No image found" normalizes to img = null
\* and every other image_url is passed through; the page and the modal
\* display DEFAULT_IMG exactly when the normalized img is absent (null,
\* undefined or empty) and the article's own img otherwise.
C24_PlaceholderExactlyWhenAbsent ==
    normalized.done =>
      \A i \in DOMAIN normalized.articles :
        LET a == normalized.articles[i] IN
        /\ ImageIsNormalized(rawArticles[i], a)
        /\ ModalSrc(a) = (IF Falsy(a.img) THEN DEFAULT_IMG ELSE a.img)
        /\ PageSrc(a, i \in imageFailed) = (IF Falsy(a.img) THEN DEFAULT_IMG ELSE a.img)

\* C24 (amended): the sentinel "No image found" normalizes to img = null
\* and every other image_url is passed through; the modal displays
\* DEFAULT_IMG exactly when the normalized img is absent and the article's
\* own img otherwise; the page displays DEFAULT_IMG exactly when the
\* normalized img is absent or its image has failed to load, and the
\* article's own img otherwise.
C24_PlaceholderWhenAbsentOrFailed ==
    normalized.done =>
      \A i \in DOMAIN normalized.articles :
        LET a == normalized.articles[i] IN
        /\ ImageIsNormalized(rawArticles[i], a)
        /\ ModalSrc(a) = (IF Falsy(a.img) THEN DEFAULT_IMG ELSE a.img)
        /\ PageSrc(a, i \in imageFailed)
             = (IF Falsy(a.img) \/ i \in imageFailed THEN DEFAULT_IMG ELSE a.img)

\* C24 witness: a response with an article whose image_url is the sentinel,
\* normalized to null and shown with the placeholder, and an article whose
\* own image failed to load.
C24_Witness ==
    /\ normalized.done
    /\ \E i \in DOMAIN normalized.articles :
         /\ rawArticles[i].image_url = NoImageFound
         /\ normalized.articles[i].img = NullText
         /\ PageSrc(normalized.articles[i], i \in imageFailed) = DEFAULT_IMG
    /\ imageFailed # { }

----------------------------------------------------------------------------
(* Properties of fetchNews (limit build) *)

\* C26: in the limit build, whenever a fresh cache entry holds at least
\* limit articles, a call fetchNews(limit) issues no network request and
\* returns exactly the first limit cached articles in cached order; and no
\* step that calls fetchNews (a flip, a timer, a page load) changes the
\* cache entry or its timestamp.
C26_FreshCacheServes ==
    /\ [] ( variant = "limit" =>
             \A limit \in FetchLimits :
               LET cached == GetCachedArticles(cacheData, cacheTs, now)
                   r      == CallFetchNews(View, inflight, lastResult, "loadMore", limit,
                                           cacheData, cacheTs, now)
               IN  ( cached.present /\ Len(cached.data) >= limit )
                   => /\ r.pending = inflight
                      /\ r.result = [ kind |-> "loadMore", count |-> limit,
                                      from |-> "cache" ]
                      /\ r.view = AfterLoadMore(View, limit,
                                                SubSeq(cacheData.value, 1, limit)) )
    /\ [][ (LimitHandleFlip \/ LimitTimerFires \/ LimitReload)
            => UNCHANGED << cacheData, cacheTs >> ]_vars

\* C26 witness: the page was loaded while the cache entry was fresh and held
\* five articles or more; loadNews was answered from the cache and no
\* request is pending.
C26_Witness ==
    /\ variant = "limit"
    /\ lastResult = [ kind |-> "loadNews", count |-> StartLimit, from |-> "cache" ]
    /\ GetCachedArticles(cacheData, cacheTs, now).present
    /\ articles = SubSeq(cacheData.value, 1, StartLimit)
    /\ inflight = << >>

\* C27: in the limit build, when the network request fails or returns no
\* articles, fetchNews(limit) does not reject: it resolves to the first at
\* most limit articles of the fresh cache entry read at the start of the
\* call if there was one, and to the empty list otherwise; so the initial
\* load leaves the window empty ('No news available') only when the fetch
\* yields nothing and no fresh cache entry was read.
C27_FailedFetchFallsBack ==
    variant = "limit" =>
      \A i \in DOMAIN inflight :
      \A resp \in Responses(inflight[i].url) :
        LET req  == inflight[i]
            s    == LimitFetchSettles(req.cached, req.limit, resp)
            size == IF Len(req.cached.data) < req.limit THEN Len(req.cached.data)
                    ELSE req.limit
        IN  /\ s.status = "fulfilled"
            /\ Len(LimitNetworkArticles(resp)) = 0
                 => s.value = IF req.cached.present
                              THEN SubSeq(req.cached.data, 1, size) ELSE << >>
            /\ ( req.kind = "loadNews" /\ AfterLoadNews(View, s.value).articles = << >> )
                 => ( Len(LimitNetworkArticles(resp)) = 0 /\ ~req.cached.present )

\* C27 witness: the page was loaded with a fresh cache entry of fewer than
\* five articles, the network request failed, and the window shows the
\* cached articles.
C27_Witness ==
    /\ variant = "limit"
    /\ lastResult.kind = "loadNews"
    /\ lastResult.from = "fallback"
    /\ ~loading
    /\ Len(articles) > 0
    /\ articles = cacheData.value

----------------------------------------------------------------------------
(* Properties of the flags of the max_id build *)

\* C28: in the max_id build the loadingMore flag agrees with the network in
\* every reachable state: loadingMore is true if and only if a load-more
\* request is in flight, also after mode toggles performed while a
\* load-more is outstanding.
C28_LoadingMoreAgreesWithNetwork ==
    variant = "max_id" => (loadingMore <=> LoadMoreInFlight # { })

\* C28 witness: the mode was toggled while a load-more was outstanding; the
\* request of the old mode is still in flight and the flag is still set.
C28_Witness ==
    /\ variant = "max_id"
    /\ loadingMore
    /\ \E i \in LoadMoreInFlight : inflight[i].gen < gen

----------------------------------------------------------------------------
(* Properties of the related-articles list (max_id build) *)

\* the ids of a list of articles, in order
ArticleIds(s) == [ i \in DOMAIN s |-> s[i].id ]

\* C29: the related-articles list belongs to the article that is open in
\* the detail view: once every related fetch has resolved (in whatever
\* order), relatedArticles holds the articles that the filter yields for the
\* headline of the open article on a response to its related fetch.
C29_RelatedBelongsToOpenArticle ==
    ( modalArticle # << >> /\ relatedPending = << >> )
    => \E resp \in Responses(RelatedRequest(modalArticle[1]).url) :
         ArticleIds(relatedArticles.items)
           = ArticleIds(Related(FetchNewsResult(RelatedRequest(modalArticle[1]), resp),
                                modalArticle[1].headline))

\* the initial or mode-reset fetches that are outstanding
LoadNewsInFlight == { i \in DOMAIN inflight : inflight[i].kind = "loadNews" }

\* C30: in the max_id build loading is true in every state in which a
\* loadNews fetch (initial or mode reset) is outstanding and false in every
\* state in which none is, so the window of the previous mode is not
\* presented while a reset is pending; no step taken while loading is true
\* issues a load-more; and loading eventually becomes false, whatever the
\* outcome of the fetch.
C30_LoadingCoversReset ==
    /\ [] ( variant = "max_id" => (loading <=> LoadNewsInFlight # { }) )
    /\ [][ loading => Cardinality(LoadMoreInFlight') <= Cardinality(LoadMoreInFlight) ]_vars
    /\ ( loading ~> ~loading )

\* C30 witness: a mode reset is pending: loading is true while the state
\* still holds the window of the previous mode.
C30_Witness ==
    /\ variant = "max_id"
    /\ loading
    /\ gen > 0
    /\ Len(articles) > 0
    /\ \E i \in LoadNewsInFlight : inflight[i].gen = gen
    /\ \E k \in DOMAIN articles : articles[k].gen < gen

====
